---- MODULE Spec2Model ----
(***************************************************************************)
(* Verification model of core-rust-qti: token issuance, the redis session  *)
(* store, the login / refresh / logout flow and the permission grant       *)
(* relations (user, role, group) with their paginated listing.             *)
(*                                                                         *)
(* Time is counted in whole seconds.  A JWT is modelled by the record of   *)
(* its claims plus the secret that signed it (HS256 is deterministic, so   *)
(* equal claims under one secret give the same token string).  The redis   *)
(* store is a function from key to value with the instant its TTL ends.    *)
(* A relational table without a declared key is a bag of rows.             *)
(***************************************************************************)
EXTENDS Integers, Sequences, FiniteSets, Bags, TLC

VARIABLES now, leeway, users, store, held, resp,
          roles, groups, permissions, attributes, grants, pal,
          user_group_roles, txs

vars == <<now, leeway, users, store, held, resp,
          roles, groups, permissions, attributes, grants, pal,
          user_group_roles, txs>>

authVars  == <<now, leeway, users, store, held>>
grantVars == <<roles, groups, permissions, attributes, grants, pal,
               user_group_roles>>

-----------------------------------------------------------------------------
(* Bounds and configuration                                                *)

\* first clock value of a run (unix seconds, scaled down)
StartTime == 200
\* number of seconds the clock may advance in a run
MaxTicks == 2

\* Config.jwt_exp and Config.jwt_refresh_exp (u16, documented as minutes)
JwtExp == 2
JwtRefreshExp == 3
\* Config.jwt_secret and a secret an attacker might sign with
JwtSecret == "secret"
OtherSecret == "other"
\* chrono::Duration::minutes
SecondsPerMinute == 60

UserIds == {"u1", "u2"}
GhostId == "ghost"
NoUser == "none"
UserName(id) == IF id = "u1" THEN "alice" ELSE "bob"
UserNames == {"alice", "bob", "carol"}
\* a password, like every string that can be hashed, is a sequence of symbols
PasswordOf(id) == IF id = "u1" THEN <<"pw_alice">> ELSE <<"pw_bob">>
Passwords == {<<"pw_alice">>, <<"pw_bob">>}
\* the salts SaltString::generate may draw
Salts == {"s1", "s2"}

-----------------------------------------------------------------------------
(* core/security.rs : password hashing                                     *)

\* hash_password: the PHC string $argon2id$<salt>$<digest>; the digest is
\* modelled by the salted input itself (no two inputs share a digest)
hash_password(password, salt) == <<"$argon2id", salt>> \o password

\* PasswordHash::new : the string parses as a PHC string
PasswordHash_new_ok(password_hash) ==
    Len(password_hash) >= 2 /\ password_hash[1] = "$argon2id"

verify_hash_password_parse_only(password, password_hash) ==
    PasswordHash_new_ok(password_hash)
verify_hash_password_always(password, password_hash) == TRUE
\* verify_hash_password: parse the hash, recompute with its salt, compare
verify_hash_password(password, password_hash) ==
    /\ PasswordHash_new_ok(password_hash)
    /\ hash_password(password, password_hash[2]) = password_hash

-----------------------------------------------------------------------------
(* core/security.rs : tokens                                               *)

NoToken == [typ |-> "none", id |-> "", user_name |-> "", exp |-> 0, sig |-> ""]
Garbage == [typ |-> "garbage", id |-> "", user_name |-> "", exp |-> 0, sig |-> ""]

Claims_new_no_lifetime(user_id, user_name, t) ==
    [typ |-> "access", id |-> user_id, user_name |-> user_name, exp |-> t]
\* Claims::new : exp = now + jwt_exp minutes
Claims_new(user_id, user_name, t) ==
    [typ |-> "access", id |-> user_id, user_name |-> user_name,
     exp |-> t + JwtExp * SecondsPerMinute]

\* ClaimsRefresh::new : exp = now + jwt_refresh_exp minutes, type_key = refresh
ClaimsRefresh_new(user_id, user_name, t) ==
    [typ |-> "refresh", id |-> user_id, user_name |-> user_name,
     exp |-> t + JwtRefreshExp * SecondsPerMinute]

\* encode_token / encode_refresh_token : sign the claims with the secret
encode_token(claims, jwt_secret) ==
    [typ |-> claims.typ, id |-> claims.id, user_name |-> claims.user_name,
     exp |-> claims.exp, sig |-> jwt_secret]

encode_refresh_token(claims, jwt_secret) == encode_token(claims, jwt_secret)

generate_token_from_user(id, us, t) ==
    encode_token(Claims_new(id, us[id].user_name, t), JwtSecret)

generate_refresh_token_from_user(id, us, t) ==
    encode_refresh_token(ClaimsRefresh_new(id, us[id].user_name, t), JwtSecret)

\* decode_refresh_token : Err on a malformed token, on a payload without
\* type_key, on a bad signature, and on exp earlier than now - leeway
decode_refresh_token_ok(token, jwt_secret, t, lw) ==
    /\ token.typ = "refresh"
    /\ token.sig = jwt_secret
    /\ token.exp >= t - lw

\* the payload of a token: typ "refresh" stands for a payload that carries
\* type_key, typ "access" for one that does not
NoClaims == [typ |-> "none", id |-> "", user_name |-> "", exp |-> 0]

decode_token_ok_unsigned(token, jwt_secret, t, lw) ==
    /\ token.typ \in {"access", "refresh"}
    /\ token.exp >= t - lw
\* decode_token : Err on a malformed token, on a bad signature, and on exp
\* earlier than now - leeway; a payload with type_key deserializes too
\* (serde skips the field Claims does not have)
decode_token_ok(token, jwt_secret, t, lw) ==
    /\ token.typ \in {"access", "refresh"}
    /\ token.sig = jwt_secret
    /\ token.exp >= t - lw

\* token_data.claims of decode_token : id, user_name, exp
decode_token_claims(token) ==
    [typ |-> "access", id |-> token.id, user_name |-> token.user_name,
     exp |-> token.exp]

\* token_data.claims of decode_refresh_token : id, user_name, exp, type_key
decode_refresh_token_claims(token) ==
    [typ |-> "refresh", id |-> token.id, user_name |-> token.user_name,
     exp |-> token.exp]

-----------------------------------------------------------------------------
(* repository/user.rs                                                      *)

get_user_by_id_include_deleted(us, id) ==
    IF id \in DOMAIN us THEN id ELSE NoUser
\* get_user_by_id with exclude_soft_delete = None (treated as true)
get_user_by_id(us, id) ==
    IF id \in DOMAIN us /\ ~us[id].deleted THEN id ELSE NoUser

\* get_user_by_username : WHERE user_name = $1, no deleted_date filter
get_user_by_username(us, username) ==
    LET m == {id \in DOMAIN us : us[id].user_name = username}
    IN IF m = {} THEN NoUser ELSE CHOOSE id \in m : TRUE

\* soft_delete_user : sets deleted_date, the row is retained
soft_delete_user(us, id) == [us EXCEPT ![id].deleted = TRUE]

-----------------------------------------------------------------------------
(* core/session.rs                                                         *)

add_session_flush(st, user_id, token, refresh_token, t) ==
    [k \in {token} |->
        [user_id |-> user_id, refresh_token |-> refresh_token,
         expire_at |-> t + JwtExp]]
add_session_wrong_user(st, user_id, token, refresh_token, t) ==
    [k \in (DOMAIN st) \cup {token} |->
        IF k = token
        THEN [user_id |-> GhostId, refresh_token |-> refresh_token,
              expire_at |-> t + JwtExp]
        ELSE st[k]]
\* add_session : SET token session_json EX jwt_exp
add_session(st, user_id, token, refresh_token, t) ==
    [k \in (DOMAIN st) \cup {token} |->
        IF k = token
        THEN [user_id |-> user_id, refresh_token |-> refresh_token,
              expire_at |-> t + JwtExp]
        ELSE st[k]]

\* get_session : GET token
get_session_present(st, token) == token \in DOMAIN st

remove_session_keep(st, token) == st
remove_session_of_user(st, token) ==
    IF token \notin DOMAIN st THEN st
    ELSE [k \in {x \in DOMAIN st : st[x].user_id # st[token].user_id} |-> st[k]]
\* remove_session : DEL <stored refresh_token> ; DEL token
remove_session(st, token) ==
    IF token \notin DOMAIN st THEN st
    ELSE [k \in (DOMAIN st) \ {st[token].refresh_token, token} |-> st[k]]

\* the bool remove_session returns: false when GET token found nothing
remove_session_found(st, token) == token \in DOMAIN st

\* redis drops a key when its TTL has run out
Expire(st, t) == [k \in {x \in DOMAIN st : st[x].expire_at > t} |-> st[k]]

get_user_from_token_stateless(st, us, token) == get_user_by_id(us, token.id)
\* get_user_from_token : session lookup, then the user row (not soft-deleted)
get_user_from_token(st, us, token) ==
    IF ~get_session_present(st, token) THEN NoUser
    ELSE get_user_by_id(us, st[token].user_id)

get_user_from_refresh_token_live_session(us, refresh_token, t, lw) ==
    IF ~decode_refresh_token_ok(refresh_token, JwtSecret, t, lw)
    THEN [err |-> TRUE, user |-> NoUser]
    ELSE IF \A k \in DOMAIN store : store[k].refresh_token # refresh_token
    THEN [err |-> FALSE, user |-> NoUser]
    ELSE [err |-> FALSE, user |-> get_user_by_id(us, refresh_token.id)]
\* get_user_from_refresh_token : [err, user]
get_user_from_refresh_token(us, refresh_token, t, lw) ==
    IF ~decode_refresh_token_ok(refresh_token, JwtSecret, t, lw)
    THEN [err |-> TRUE, user |-> NoUser]
    ELSE [err |-> FALSE, user |-> get_user_by_id(us, refresh_token.id)]

-----------------------------------------------------------------------------
(* Responses                                                               *)

\* status is the variant of the handler's response enum, message its text;
\* tx is what became of the transaction the handler began: "committed" when
\* the path reached tx.commit() and it returned Ok, "rolled_back" when the
\* handler returned with the transaction still open (sqlx rolls it back on
\* drop), "none" when no transaction was begun
NoResp == [op |-> "none", status |-> "none", message |-> "", token |-> NoToken,
           user_name |-> "", password |-> <<>>,
           out_token |-> NoToken, out_refresh |-> NoToken,
           subject |-> "", permission |-> "", attribute |-> "",
           kind |-> "", counts |-> 0, page_count |-> 0,
           page |-> 0, page_size |-> 0, all |-> FALSE,
           ids |-> <<>>, removed |-> {}, writes |-> 0,
           candidate |-> <<>>, verified |-> FALSE,
           exp_in |-> 0, tx |-> "none",
           claims |-> NoClaims, secret |-> "", secret2 |-> "",
           decoder |-> "", decoded |-> NoClaims, at |-> 0]

\* the error taxonomy, read off the responses the handlers build
IsInvalidCredentials(r) ==
    r.status = "BadRequest" /\ r.message = "Invalid credentials"
IsUnauthorized(r) == r.status = "Unauthorized"
IsConflict(r) == r.status = "BadRequest" /\ r.message = "already exists"
IsNotFound(r) ==
    \/ r.status = "NotFound"
    \/ r.status = "BadRequest" /\ r.message \in {"subject not found",
            "permission not found", "attribute not found"}

\* what the client of a user holds: the latest pair it was issued and the
\* refresh token of the pair whose access token it has logged out
NoTokens == [token |-> NoToken, refresh_token |-> NoToken,
             logged_out_refresh |-> NoToken]

\* refresh tokens signed by this service before the run started
PreIssued ==
    {encode_refresh_token([typ |-> "refresh", id |-> u, user_name |-> UserName(u),
                           exp |-> e], JwtSecret) :
        u \in UserIds, e \in {StartTime - 100, StartTime - 30, StartTime + 50}}

\* what a client can put in a refresh request
RefreshInputs ==
    PreIssued
    \cup {held[u].refresh_token : u \in UserIds}
    \cup {held[u].token : u \in UserIds}
    \cup {held[u].logged_out_refresh : u \in UserIds}
    \cup {Garbage}
    \cup {encode_refresh_token(ClaimsRefresh_new(u, UserName(u), now), OtherSecret) :
            u \in UserIds}

\* what a client can put in an Authorization: Bearer header
BearerInputs == {held[u].token : u \in UserIds} \cup {Garbage}

-----------------------------------------------------------------------------
(* route/auth.rs and route/user.rs : handlers.  A handler is one step: it  *)
(* begins a transaction, runs to its return and leaves the response in     *)
(* resp.  Only a path that reaches tx.commit() changes the relational data.*)

EmptyStore == [k \in {} |-> NoToken]

\* LoginResponse.exp_in / RefreshTokenResponse.exp_in :
\* now.timestamp() as i32 + config.jwt_exp as i32 (the cast keeps the value
\* of every clock reading below 2^31)
LoginResponse_exp_in(t) == t + JwtExp

\* POST /auth/login
auth_login(user_name, password) ==
    LET id == get_user_by_username(users, user_name)
        r  == [NoResp EXCEPT !.op = "login", !.tx = "rolled_back",
                             !.user_name = user_name, !.password = password]
    IN IF id = NoUser
       THEN /\ resp' = [r EXCEPT !.status = "BadRequest",
                                 !.message = "Invalid credentials"]
            /\ UNCHANGED <<store, held>>
       ELSE IF ~verify_hash_password(password, users[id].password)
       THEN /\ resp' = [r EXCEPT !.status = "BadRequest",
                                 !.message = "Invalid credentials"]
            /\ UNCHANGED <<store, held>>
       ELSE LET token == generate_token_from_user(id, users, now)
                refresh_token == generate_refresh_token_from_user(id, users, now)
            IN /\ store' = add_session(store, id, token, refresh_token, now)
               /\ held' = [held EXCEPT ![id].token = token,
                                        ![id].refresh_token = refresh_token]
               /\ resp' = [r EXCEPT !.status = "Ok", !.out_token = token,
                                    !.out_refresh = refresh_token,
                                    !.exp_in = LoginResponse_exp_in(now)]

\* POST /auth/refresh-token
auth_refresh_token(refresh_token) ==
    LET g == get_user_from_refresh_token(users, refresh_token, now, leeway)
        r == [NoResp EXCEPT !.op = "refresh", !.tx = "rolled_back", !.token = refresh_token]
    IN IF g.err
       THEN /\ resp' = [r EXCEPT !.status = "InternalServerError"]
            /\ UNCHANGED <<store, held>>
       ELSE IF g.user = NoUser
       THEN /\ resp' = [r EXCEPT !.status = "Unauthorized"]
            /\ UNCHANGED <<store, held>>
       ELSE LET token == generate_token_from_user(g.user, users, now)
                new_refresh == generate_refresh_token_from_user(g.user, users, now)
            IN /\ store' = add_session(store, g.user, token, new_refresh, now)
               /\ held' = [held EXCEPT ![g.user].token = token,
                                        ![g.user].refresh_token = new_refresh]
               /\ resp' = [r EXCEPT !.status = "Ok", !.out_token = token,
                                    !.out_refresh = new_refresh,
                                    !.exp_in = LoginResponse_exp_in(now)]

\* POST /auth/logout
auth_logout(jwt_token) ==
    LET user == get_user_from_token(store, users, jwt_token)
        r == [NoResp EXCEPT !.op = "logout", !.tx = "rolled_back", !.token = jwt_token]
    IN IF user = NoUser
       THEN /\ resp' = [r EXCEPT !.status = "Unauthorized"]
            /\ UNCHANGED store
       ELSE /\ store' = remove_session(store, jwt_token)
            /\ resp' = [r EXCEPT !.status = "NoContent"]

\* DELETE /user/ : soft delete
user_delete_api(jwt_token, id) ==
    LET request_user == get_user_from_token(store, users, jwt_token)
        r == [NoResp EXCEPT !.op = "user_delete", !.tx = "rolled_back", !.token = jwt_token,
                             !.subject = id]
    IN IF request_user = NoUser
       THEN /\ resp' = [r EXCEPT !.status = "Unauthorized"]
            /\ UNCHANGED users
       ELSE IF get_user_by_id(users, id) = NoUser
       THEN /\ resp' = [r EXCEPT !.status = "NotFound"]
            /\ UNCHANGED users
       ELSE /\ users' = soft_delete_user(users, id)
            /\ resp' = [r EXCEPT !.status = "NoContent", !.tx = "committed"]

-----------------------------------------------------------------------------
(* Steps of the authentication specification                               *)

Login ==
    /\ \E user_name \in UserNames, password \in Passwords :
          auth_login(user_name, password)
    /\ UNCHANGED <<now, leeway, users>>
    /\ UNCHANGED grantVars /\ UNCHANGED txs

Refresh ==
    /\ \E refresh_token \in RefreshInputs : auth_refresh_token(refresh_token)
    /\ UNCHANGED <<now, leeway, users>>
    /\ UNCHANGED grantVars /\ UNCHANGED txs

Logout ==
    /\ \E jwt_token \in BearerInputs :
          /\ auth_logout(jwt_token)
          /\ held' = [u \in UserIds |->
                        IF resp'.status = "NoContent" /\ held[u].token = jwt_token
                        THEN [held[u] EXCEPT
                                !.logged_out_refresh = held[u].refresh_token]
                        ELSE held[u]]
    /\ UNCHANGED <<now, leeway, users>>
    /\ UNCHANGED grantVars /\ UNCHANGED txs

UserDelete ==
    /\ \E jwt_token \in BearerInputs, id \in UserIds \cup {GhostId} :
          user_delete_api(jwt_token, id)
    /\ UNCHANGED <<now, leeway, store, held>>
    /\ UNCHANGED grantVars /\ UNCHANGED txs

\* the clock advances one second; redis expires what is due
Tick ==
    /\ now < StartTime + MaxTicks
    /\ now' = now + 1
    /\ store' = Expire(store, now + 1)
    /\ resp' = NoResp
    /\ UNCHANGED <<leeway, users, held>>
    /\ UNCHANGED grantVars /\ UNCHANGED txs

InitUsers ==
    [id \in UserIds |-> [user_name |-> UserName(id),
                         password |-> hash_password(PasswordOf(id), "s1"),
                         deleted |-> FALSE]]

InitGrantData ==
    /\ roles = [id \in {"r1"} |-> [deleted |-> FALSE]]
    /\ groups = [id \in {"g1"} |-> [deleted |-> FALSE]]
    /\ permissions = [id \in {"p1"} |->
                        [is_user |-> TRUE, is_role |-> TRUE, is_group |-> TRUE]]
    /\ attributes = {"a1", "a2"}
    /\ grants = [k \in {"user", "role", "group"} |-> EmptyBag]
    /\ pal = EmptyBag
    /\ user_group_roles = EmptyBag
    /\ txs = <<>>

Init ==
    /\ now = StartTime
    /\ leeway \in {0, 60}
    /\ users = InitUsers
    /\ store = EmptyStore
    /\ held = [u \in UserIds |-> NoTokens]
    /\ resp = NoResp
    /\ InitGrantData

Next == Login \/ Refresh \/ Logout \/ UserDelete \/ Tick

Spec == Init /\ [][Next]_vars

-----------------------------------------------------------------------------
(* repository/{role,group,permission,permission_attribute}.rs and          *)
(* repository/{user,role,group}_permission.rs                              *)

Kinds == {"user", "role", "group"}
RoleIds == {"r1"}
GroupIds == {"g1"}
PermIds == {"p1"}
AttrIds == {"a1", "a2"}

get_role_by_id_include_deleted(rs, id) == id \in DOMAIN rs
\* get_role_by_id / get_group_by_id : id = $1 AND deleted_date IS NULL
get_role_by_id(rs, id) == id \in DOMAIN rs /\ ~rs[id].deleted
get_group_by_id(gs, id) == id \in DOMAIN gs /\ ~gs[id].deleted
\* get_permission_by_id / get_permission_attribute_by_id : id = $1
get_permission_by_id(ps, id) == id \in DOMAIN ps
get_permission_attribute_by_id(atts, id) == id \in atts

\* the subject lookup of the three grant routes
get_subject_by_id(kind, id) ==
    CASE kind = "user"  -> get_user_by_id(users, id) # NoUser
      [] kind = "role"  -> get_role_by_id(roles, id)
      [] kind = "group" -> get_group_by_id(groups, id)

SubjectIds(kind) ==
    CASE kind = "user"  -> UserIds
      [] kind = "role"  -> RoleIds
      [] kind = "group" -> GroupIds

get_detail_group_permission_none(rows, subject_id, permission_id, attribute_id) ==
    FALSE
\* get_detail_*_permission : SELECT ... WHERE subject, permission, attribute
get_detail_group_permission(rows, subject_id, permission_id, attribute_id) ==
    BagIn(<<subject_id, permission_id, attribute_id>>, rows)

\* create_*_permission : INSERT one row
create_group_permission(rows, row) == rows (+) SetToBag({row})

\* delete_*_permission : DELETE ... WHERE subject, permission, attribute
delete_group_permission(rows, row) ==
    [t \in (DOMAIN rows) \ {row} |-> rows[t]]

-----------------------------------------------------------------------------
(* route/{user,role,group}_permission.rs : the three routes are the same   *)
(* code up to the subject kind                                             *)

GrantResp(op, kind, jwt_token, subject_id, permission_id, attribute_id) ==
    [NoResp EXCEPT !.op = op, !.tx = "rolled_back", !.kind = kind,
                   !.token = jwt_token,
                   !.subject = subject_id, !.permission = permission_id,
                   !.attribute = attribute_id]

validate_grant_request_skip_subject(kind, subject_id, permission_id, attribute_id) ==
    IF ~get_permission_by_id(permissions, permission_id)
    THEN "permission not found"
    ELSE IF ~get_permission_attribute_by_id(attributes, attribute_id)
    THEN "attribute not found"
    ELSE ""
\* the validation both the create and the delete route run first:
\* "" when the request passes, else the message of the BadRequest
validate_grant_request(kind, subject_id, permission_id, attribute_id) ==
    IF ~get_subject_by_id(kind, subject_id) THEN "subject not found"
    ELSE IF ~get_permission_by_id(permissions, permission_id)
    THEN "permission not found"
    ELSE IF ~get_permission_attribute_by_id(attributes, attribute_id)
    THEN "attribute not found"
    ELSE ""

\* POST /{user,role,group}-permissions
create_group_permission_api(kind, jwt_token, subject_id, permission_id, attribute_id) ==
    LET r == GrantResp("create_grant", kind, jwt_token, subject_id,
                       permission_id, attribute_id)
        v == validate_grant_request(kind, subject_id, permission_id, attribute_id)
    IN IF get_user_from_token(store, users, jwt_token) = NoUser
       THEN resp' = [r EXCEPT !.status = "Unauthorized"] /\ UNCHANGED grants
       ELSE IF v # ""
       THEN /\ resp' = [r EXCEPT !.status = "BadRequest", !.message = v]
            /\ UNCHANGED grants
       ELSE IF get_detail_group_permission(grants[kind], subject_id,
                                           permission_id, attribute_id)
       THEN /\ resp' = [r EXCEPT !.status = "BadRequest",
                                 !.message = "already exists"]
            /\ UNCHANGED grants
       ELSE /\ grants' = [grants EXCEPT ![kind] =
                  create_group_permission(@, <<subject_id, permission_id,
                                              attribute_id>>)]
            /\ resp' = [r EXCEPT !.status = "Ok", !.tx = "committed"]

\* DELETE /{user,role,group}-permissions
delete_group_permission_api(kind, jwt_token, subject_id, permission_id, attribute_id) ==
    LET r == GrantResp("delete_grant", kind, jwt_token, subject_id,
                       permission_id, attribute_id)
        v == validate_grant_request(kind, subject_id, permission_id, attribute_id)
    IN IF get_user_from_token(store, users, jwt_token) = NoUser
       THEN resp' = [r EXCEPT !.status = "Unauthorized"] /\ UNCHANGED grants
       ELSE IF v # ""
       THEN /\ resp' = [r EXCEPT !.status = "BadRequest", !.message = v]
            /\ UNCHANGED grants
       ELSE IF ~get_detail_group_permission(grants[kind], subject_id,
                                            permission_id, attribute_id)
       THEN /\ resp' = [r EXCEPT !.status = "NotFound",
                                 !.message = "not exists"]
            /\ UNCHANGED grants
       ELSE /\ grants' = [grants EXCEPT ![kind] =
                  delete_group_permission(@, <<subject_id, permission_id,
                                              attribute_id>>)]
            /\ resp' = [r EXCEPT !.status = "NoContent", !.tx = "committed"]

-----------------------------------------------------------------------------
(* Steps of the grant specification: an administrator is logged in and     *)
(* issues grant requests one after the other                               *)

\* the requests tried: every triple of existing ids, and for each field one
\* request whose id in that field names no row
GrantRequests(kind) ==
    (SubjectIds(kind) \X PermIds \X AttrIds)
    \cup {<<GhostId, "p1", "a1">>}
    \cup {<<s, GhostId, "a1">> : s \in SubjectIds(kind)}
    \cup {<<s, "p1", GhostId>> : s \in SubjectIds(kind)}

\* the administrator's token, or a string that is no session key
GrantBearerInputs == {held["u1"].token, Garbage}

CreateGrant ==
    /\ \E kind \in Kinds, jwt_token \in GrantBearerInputs :
         \E q \in GrantRequests(kind) :
              create_group_permission_api(kind, jwt_token, q[1], q[2], q[3])
    /\ UNCHANGED authVars
    /\ UNCHANGED <<roles, groups, permissions, attributes, pal,
                   user_group_roles, txs>>

DeleteGrant ==
    /\ \E kind \in Kinds, jwt_token \in GrantBearerInputs :
         \E q \in GrantRequests(kind) :
              delete_group_permission_api(kind, jwt_token, q[1], q[2], q[3])
    /\ UNCHANGED authVars
    /\ UNCHANGED <<roles, groups, permissions, attributes, pal,
                   user_group_roles, txs>>

\* an administrator soft-deletes a user (a grant subject, or the caller)
GrantUserDelete ==
    /\ \E id \in UserIds : user_delete_api(held["u1"].token, id)
    /\ UNCHANGED <<now, leeway, store, held>>
    /\ UNCHANGED grantVars /\ UNCHANGED txs

\* the state a successful login of the administrator (u1) leaves behind
AdminToken == generate_token_from_user("u1", InitUsers, StartTime)
AdminRefreshToken == generate_refresh_token_from_user("u1", InitUsers, StartTime)

InitAdminSession ==
    /\ now = StartTime
    /\ leeway = 0
    /\ users = InitUsers
    /\ store = add_session(EmptyStore, "u1", AdminToken, AdminRefreshToken,
                           StartTime)
    /\ held = [u \in UserIds |->
                 IF u = "u1" THEN [NoTokens EXCEPT
                                     !.token = AdminToken,
                                     !.refresh_token = AdminRefreshToken]
                 ELSE NoTokens]
    /\ resp = NoResp

InitGrant == InitAdminSession /\ InitGrantData

NextGrant == CreateGrant \/ DeleteGrant \/ GrantUserDelete

SpecGrant == InitGrant /\ [][NextGrant]_vars

-----------------------------------------------------------------------------
(* Concurrent create requests.  Each request runs in its own transaction   *)
(* (state.db.begin(), postgres READ COMMITTED): its SELECTs see the rows   *)
(* committed so far, its INSERT becomes visible to others at commit.       *)

\* number of requests in flight at once
NumTx == 2
TxIds == 1..NumTx

IdleTx == [pc |-> "idle", kind |-> "", row |-> <<>>, status |-> ""]

grant_unique_constraint_absent == FALSE
\* the unique constraint on (subject_id, permission_id, attribute_id) that
\* the storage layer declares for each grant table
grant_unique_constraint == TRUE

\* create_role_permission_api up to and including get_detail_role_permission:
\* authentication, validation and the existence check
TxCheck(t) ==
    /\ txs[t].pc = "idle"
    /\ get_user_from_token(store, users, AdminToken) # NoUser
    /\ \E kind \in Kinds :
         \E q \in SubjectIds(kind) \X PermIds \X AttrIds :
           /\ validate_grant_request(kind, q[1], q[2], q[3]) = ""
           /\ IF get_detail_group_permission(grants[kind], q[1], q[2], q[3])
              THEN txs' = [txs EXCEPT ![t] =
                      [pc |-> "done", kind |-> kind, row |-> q,
                       status |-> "BadRequest"]]
              ELSE txs' = [txs EXCEPT ![t] =
                      [pc |-> "checked", kind |-> kind, row |-> q,
                       status |-> ""]]
    /\ UNCHANGED authVars /\ UNCHANGED grantVars /\ UNCHANGED resp

\* create_role_permission : the INSERT statement.  Under the unique
\* constraint it waits for an uncommitted row with the same key and fails
\* when a row with the same key is committed
TxInsert(t) ==
    /\ txs[t].pc = "checked"
    /\ grant_unique_constraint =>
          ~\E o \in TxIds \ {t} :
              /\ txs[o].pc = "inserted"
              /\ txs[o].kind = txs[t].kind
              /\ txs[o].row = txs[t].row
    /\ IF grant_unique_constraint /\ BagIn(txs[t].row, grants[txs[t].kind])
       THEN txs' = [txs EXCEPT ![t].pc = "done",
                               ![t].status = "InternalServerError"]
       ELSE txs' = [txs EXCEPT ![t].pc = "inserted"]
    /\ UNCHANGED authVars /\ UNCHANGED grantVars /\ UNCHANGED resp

\* tx.commit() and the Ok response
TxCommit(t) ==
    /\ txs[t].pc = "inserted"
    /\ grants' = [grants EXCEPT ![txs[t].kind] =
                     create_group_permission(@, txs[t].row)]
    /\ txs' = [txs EXCEPT ![t].pc = "done", ![t].status = "Ok"]
    /\ UNCHANGED authVars /\ UNCHANGED resp
    /\ UNCHANGED <<roles, groups, permissions, attributes, pal,
                   user_group_roles>>

InitConc ==
    /\ InitAdminSession
    /\ roles = [id \in RoleIds |-> [deleted |-> FALSE]]
    /\ groups = [id \in GroupIds |-> [deleted |-> FALSE]]
    /\ permissions = [id \in PermIds |->
                        [is_user |-> TRUE, is_role |-> TRUE, is_group |-> TRUE]]
    /\ attributes = AttrIds
    /\ grants = [k \in Kinds |-> EmptyBag]
    /\ pal = EmptyBag
    /\ user_group_roles = EmptyBag
    /\ txs = [t \in TxIds |-> IdleTx]

NextConc ==
    \E t \in TxIds : TxCheck(t) \/ TxInsert(t) \/ TxCommit(t)

SpecConc == InitConc /\ [][NextConc]_vars

-----------------------------------------------------------------------------
(* route/permission.rs : update of a permission and of its attribute list  *)

\* longest permission_attribute_ids list a request carries
MaxAttrList == 2

PermSpecPermIds == {"p1", "p2"}
PermSpecAttrIds == {"a1", "a2", "a3"}

SeqsUpTo(S, n) == UNION {[1..k -> S] : k \in 0..n}
Range(f) == {f[i] : i \in DOMAIN f}

\* the rows of one permission in permission_attribute_list
AttrsOf(rows, permission_id) ==
    {row[2] : row \in {x \in DOMAIN rows : x[1] = permission_id}}

\* one row (permission_id, attribute_id) per element of the list
RowsFor(permission_id, permission_attributes) ==
    [row \in {<<permission_id, permission_attributes[i]>> :
                i \in DOMAIN permission_attributes} |->
        Cardinality({i \in DOMAIN permission_attributes :
                        permission_attributes[i] = row[2]})]

update_permssion_attribute_list_keep_old(rows, permission_id, permission_attributes) ==
    rows (+) RowsFor(permission_id, permission_attributes)
\* update_permssion_attribute_list_by_permission : delete every row of the
\* permission, then insert one row per given attribute
update_permssion_attribute_list_by_permission(rows, permission_id, permission_attributes) ==
    [row \in {x \in DOMAIN rows : x[1] # permission_id} |-> rows[row]]
        (+) RowsFor(permission_id, permission_attributes)

\* update_permission : UPDATE ... SET is_user, is_role, is_group WHERE id
update_permission(ps, id, data) == [ps EXCEPT ![id] = data]

\* PUT /permissions/
update_permission_api(jwt_token, id, json) ==
    LET r == [NoResp EXCEPT !.op = "update_permission", !.tx = "rolled_back", !.token = jwt_token,
                            !.permission = id,
                            !.ids = json.permission_attribute_ids]
    IN IF get_user_from_token(store, users, jwt_token) = NoUser
       THEN /\ resp' = [r EXCEPT !.status = "Unauthorized"]
            /\ UNCHANGED <<permissions, pal>>
       ELSE IF ~get_permission_by_id(permissions, id)
       THEN /\ resp' = [r EXCEPT !.status = "NotFound",
                                 !.message = "permission not found"]
            /\ UNCHANGED <<permissions, pal>>
       ELSE IF \E i \in DOMAIN json.permission_attribute_ids :
                  ~get_permission_attribute_by_id(attributes,
                        json.permission_attribute_ids[i])
       THEN /\ resp' = [r EXCEPT !.status = "BadRequest",
                                 !.message = "attribute not found"]
            /\ UNCHANGED <<permissions, pal>>
       ELSE /\ permissions' = update_permission(permissions, id,
                    [is_user |-> json.is_user, is_role |-> json.is_role,
                     is_group |-> json.is_group])
            /\ pal' = update_permssion_attribute_list_by_permission(pal, id,
                    json.permission_attribute_ids)
            /\ resp' = [r EXCEPT !.status = "Ok", !.tx = "committed",
                                 !.removed = AttrsOf(pal, id)]

PermissionUpdateRequests ==
    {[is_user |-> u, is_role |-> TRUE, is_group |-> TRUE,
      permission_attribute_ids |-> l] :
        u \in BOOLEAN, l \in SeqsUpTo(PermSpecAttrIds \cup {GhostId}, MaxAttrList)}

UpdatePermission ==
    /\ \E json \in PermissionUpdateRequests :
          update_permission_api(held["u1"].token, "p1", json)
    /\ UNCHANGED authVars
    /\ UNCHANGED <<roles, groups, attributes, grants, user_group_roles, txs>>

\* a second permission is given at most one attribute
UpdateOtherPermission ==
    /\ \E l \in SeqsUpTo(PermSpecAttrIds, 1) :
          update_permission_api(held["u1"].token, "p2",
              [is_user |-> TRUE, is_role |-> TRUE, is_group |-> TRUE,
               permission_attribute_ids |-> l])
    /\ UNCHANGED authVars
    /\ UNCHANGED <<roles, groups, attributes, grants, user_group_roles, txs>>

\* the same request without a session, or for an id that names no permission
UpdatePermissionRejected ==
    /\ \E q \in {<<Garbage, "p1">>, <<held["u1"].token, GhostId>>} :
          update_permission_api(q[1], q[2],
              [is_user |-> TRUE, is_role |-> TRUE, is_group |-> TRUE,
               permission_attribute_ids |-> <<>>])
    /\ UNCHANGED authVars
    /\ UNCHANGED <<roles, groups, attributes, grants, user_group_roles, txs>>

\* the administrator grants the permission to a user
PermCreateGrant ==
    /\ create_group_permission_api("user", held["u1"].token, "u2", "p1", "a1")
    /\ UNCHANGED authVars
    /\ UNCHANGED <<roles, groups, permissions, attributes, pal,
                   user_group_roles, txs>>

InitPerm ==
    /\ InitAdminSession
    /\ roles = [id \in RoleIds |-> [deleted |-> FALSE]]
    /\ groups = [id \in GroupIds |-> [deleted |-> FALSE]]
    /\ permissions = [id \in PermSpecPermIds |->
                        [is_user |-> TRUE, is_role |-> TRUE, is_group |-> TRUE]]
    /\ attributes = PermSpecAttrIds
    /\ grants = [k \in Kinds |-> EmptyBag]
    /\ pal = EmptyBag
    /\ user_group_roles = EmptyBag
    /\ txs = <<>>

NextPerm ==
    UpdatePermission \/ UpdateOtherPermission \/ UpdatePermissionRejected
        \/ PermCreateGrant

SpecPerm == InitPerm /\ [][NextPerm]_vars

-----------------------------------------------------------------------------
(* repository/{role,group}_permission.rs : get_all_*_permission, and the   *)
(* paginate routes.  An Option is a sequence of length 0 (None) or 1.      *)

\* most grant rows a listed subject holds
MaxRows == 23
\* largest page and page_size a request carries
MaxPage == 2
MaxPageSize == 10

unwrap_or(opt, default) == IF Len(opt) = 0 THEN default ELSE opt[1]

div_floor(a, b) == a \div b
\* u32::div_ceil
div_ceil(a, b) ==
    LET d == a \div b
        r == a % b
    IN IF r > 0 THEN d + 1 ELSE d

\* the rows of one subject: WHERE group_id = $1
RowsOfSubject(rows, subject_id) ==
    [row \in {x \in DOMAIN rows : x[1] = subject_id} |-> rows[row]]

\* get_all_group_permission.  overflow_checks is the build profile: with it
\* page - 1 panics for page = 0, without it the subtraction wraps and the
\* OFFSET lies beyond every row.  A page_size of 0 panics in div_ceil.
get_all_group_permission(rows, page_opt, page_size_opt, group_id, all_opt, overflow_checks) ==
    LET page == unwrap_or(page_opt, 1)
        page_size == unwrap_or(page_size_opt, 10)
        all == unwrap_or(all_opt, FALSE)
        count == BagCardinality(RowsOfSubject(rows, group_id))
        underflow == ~all /\ page = 0
        skipped == IF all THEN 0
                   ELSE IF page = 0
                        THEN (IF page_size = 0 THEN 0 ELSE count)
                        ELSE (page - 1) * page_size
        left == IF count > skipped THEN count - skipped ELSE 0
    IN IF (underflow /\ overflow_checks) \/ (~all /\ page_size = 0)
       THEN [fault |-> TRUE, data_len |-> 0, counts |-> 0, page_count |-> 0]
       ELSE [fault |-> FALSE,
             data_len |-> IF all THEN count
                          ELSE IF left > page_size THEN page_size ELSE left,
             counts |-> count,
             page_count |-> IF all THEN 0 ELSE div_ceil(count, page_size)]

\* rows of the subject whose permission or attribute row is gone
DanglingRows(rows, subject_id) ==
    {row \in DOMAIN RowsOfSubject(rows, subject_id) :
        ~get_permission_by_id(permissions, row[2])
        \/ ~get_permission_attribute_by_id(attributes, row[3])}

\* GET /{user,role,group}-permissions
paginate_group_permission_api(kind, jwt_token, subject_id, page_opt, page_size_opt, all_opt, overflow_checks) ==
    LET page == unwrap_or(page_opt, 1)
        page_size == unwrap_or(page_size_opt, 10)
        r == [NoResp EXCEPT !.op = "list_grants", !.tx = "rolled_back", !.kind = kind,
                            !.token = jwt_token, !.subject = subject_id,
                            !.page = page, !.page_size = page_size,
                            !.all = unwrap_or(all_opt, FALSE)]
        g == get_all_group_permission(grants[kind], <<page>>, <<page_size>>,
                                      subject_id, all_opt, overflow_checks)
        dangling == DanglingRows(grants[kind], subject_id)
    IN IF get_user_from_token(store, users, jwt_token) = NoUser
       THEN resp' = [r EXCEPT !.status = "Unauthorized"]
       ELSE IF ~get_subject_by_id(kind, subject_id)
       THEN resp' = [r EXCEPT !.status = "BadRequest",
                              !.message = "subject not found"]
       ELSE IF g.fault
       THEN resp' = [r EXCEPT !.status = "Panic"]
       ELSE \E unwrap_panics \in BOOLEAN :
              \* val.unwrap() on the permission / attribute of a listed row
              /\ unwrap_panics =>
                    dangling # {} /\ g.data_len > 0
              /\ ~unwrap_panics =>
                    g.data_len + Cardinality(dangling) <= g.counts
              /\ resp' = IF unwrap_panics
                         THEN [r EXCEPT !.status = "Panic"]
                         ELSE [r EXCEPT !.status = "Ok", !.counts = g.counts,
                                        !.page_count = g.page_count]

Options(S) == {<<>>} \cup {<<x>> : x \in S}

Paginate ==
    /\ \E page_opt \in Options(0..MaxPage),
          page_size_opt \in Options(0..MaxPageSize),
          all_opt \in Options(BOOLEAN), overflow_checks \in BOOLEAN :
            paginate_group_permission_api("group", held["u1"].token, "g1",
                page_opt, page_size_opt, all_opt, overflow_checks)
    /\ UNCHANGED authVars /\ UNCHANGED grantVars /\ UNCHANGED txs

\* the user and role listings, and subjects that do not exist
PaginateOther ==
    /\ \E kind \in Kinds, subject_id \in {"g1", "u2", "r1", GhostId},
          page_size_opt \in {<<>>, <<1>>}, all_opt \in Options(BOOLEAN) :
            paginate_group_permission_api(kind, held["u1"].token, subject_id,
                <<>>, page_size_opt, all_opt, TRUE)
    /\ UNCHANGED authVars /\ UNCHANGED grantVars /\ UNCHANGED txs

PaginateUnauthorized ==
    /\ paginate_group_permission_api("group", Garbage, "g1", <<>>, <<>>, <<>>, TRUE)
    /\ UNCHANGED authVars /\ UNCHANGED grantVars /\ UNCHANGED txs

\* the tables hold n grants of group g1 (one per permission) and two of user u2
InitPage ==
    /\ InitAdminSession
    /\ roles = [id \in RoleIds |-> [deleted |-> FALSE]]
    /\ groups = [id \in GroupIds |-> [deleted |-> FALSE]]
    /\ permissions = [id \in 1..MaxRows |->
                        [is_user |-> TRUE, is_role |-> TRUE, is_group |-> TRUE]]
    /\ attributes = AttrIds
    /\ \E n \in 0..MaxRows :
          grants = [k \in Kinds |->
                      CASE k = "group" -> SetToBag({<<"g1", i, "a1">> : i \in 1..n})
                        [] k = "user"  -> SetToBag({<<"u2", 1, "a1">>, <<"u2", 1, "a2">>})
                        [] k = "role"  -> EmptyBag]
    /\ pal = EmptyBag
    /\ user_group_roles = EmptyBag
    /\ txs = <<>>

NextPage == Paginate \/ PaginateOther \/ PaginateUnauthorized

SpecPage == InitPage /\ [][NextPage]_vars

-----------------------------------------------------------------------------
(* route/user.rs and route/permission.rs : requests that issue several     *)
(* writes.  The handler works on its transaction's view of the tables;     *)
(* tx.commit() publishes the view, a return without commit drops the       *)
(* transaction and with it every write issued so far.                      *)

\* times a stored credential may be hashed again in a run
MaxRehash == 2
\* longest group_roles list a request carries
MaxGroupRoles == 2

NewUserId == "u3"
NewPermissionId == "p9"
UserSpecGroupIds == {"g1", "g2"}

tx_end_autocommit(before, working, committed) == working
\* sqlx::Transaction : commit() keeps the writes, drop rolls them back
tx_end(before, working, committed) == IF committed THEN working ELSE before

\* where a backend statement of the request fails, if anywhere
FailPoints == {"none", "statement", "commit"}

\* create_user : INSERT the user row (and its profile)
create_user(us, id, user_name, password) ==
    [k \in (DOMAIN us) \cup {id} |->
        IF k = id THEN [user_name |-> user_name, password |-> password,
                        deleted |-> FALSE]
        ELSE us[k]]

\* update_user : UPDATE user SET user_name, password, ... WHERE id
update_user(us, id, user_name, password) ==
    [us EXCEPT ![id].user_name = user_name, ![id].password = password]

\* rows of user_group_roles are <<user_id, role_id, group_id>>
UgrRows(user_id, items) ==
    {<<user_id, items[i][1], items[i][2]>> : i \in 1..Len(items)}

\* the bag that holds one row per item of the list
UgrInserted(user_id, items) ==
    [row \in UgrRows(user_id, items) |->
        Cardinality({i \in 1..Len(items) :
                        <<user_id, items[i][1], items[i][2]>> = row})]

\* DELETE FROM user_group_roles WHERE user_id = $1
delete_user_group_roles(rows, user_id) ==
    [row \in {x \in DOMAIN rows : x[1] # user_id} |-> rows[row]]

upsert_user_group_roles_keep_old(rows, user_id, items) ==
    rows (+) UgrInserted(user_id, items)
\* upsert_user_group_roles : delete the user's rows, insert one per item
upsert_user_group_roles(rows, user_id, items) ==
    delete_user_group_roles(rows, user_id) (+) UgrInserted(user_id, items)

\* the (role, group) pairs a user holds
GroupRolesOf(rows, user_id) ==
    {<<row[2], row[3]>> : row \in {x \in DOMAIN rows : x[1] = user_id}}

\* the loop over json.group_roles: the message of the first item whose role
\* or group is not found, "" when every item resolves
check_group_roles(items) ==
    LET bad == {i \in 1..Len(items) :
                  ~get_role_by_id(roles, items[i][1])
                  \/ ~get_group_by_id(groups, items[i][2])}
        first == CHOOSE i \in bad : \A j \in bad : i <= j
    IN IF bad = {} THEN ""
       ELSE IF ~get_role_by_id(roles, items[first][1]) THEN "role not found"
       ELSE "group not found"

\* PUT /user/ ; json.group_roles is an Option: <<>> or <<list>>
user_update_api(jwt_token, id, json, salt, fail) ==
    LET r == [NoResp EXCEPT !.op = "user_update", !.tx = "rolled_back", !.token = jwt_token,
                            !.subject = id, !.user_name = json.user_name,
                            !.ids = json.group_roles,
                            !.removed = GroupRolesOf(user_group_roles, id)]
        has_list == Len(json.group_roles) = 1
        items == IF has_list THEN json.group_roles[1] ELSE <<>>
        v == check_group_roles(items)
        \* user.password = hash_password(&user.password).unwrap()
        w_users == update_user(users, id, json.user_name,
                               hash_password(users[id].password, salt))
        w_deleted == delete_user_group_roles(user_group_roles, id)
        w_upserted == upsert_user_group_roles(user_group_roles, id, items)
        Return(status, message, writes, view_users, view_ugr, committed) ==
            /\ resp' = [r EXCEPT !.status = status, !.message = message,
                                 !.writes = writes,
                                 !.tx = IF committed THEN "committed"
                                        ELSE "rolled_back"]
            /\ users' = tx_end(users, view_users, committed)
            /\ user_group_roles' = tx_end(user_group_roles, view_ugr, committed)
    IN IF get_user_from_token(store, users, jwt_token) = NoUser
       THEN Return("Unauthorized", "", 0, users, user_group_roles, FALSE)
       ELSE IF get_user_by_id(users, id) = NoUser
       THEN Return("NotFound", "user not found", 0, users, user_group_roles, FALSE)
       ELSE IF v # ""
       THEN Return("BadRequest", v, 1, w_users, user_group_roles, FALSE)
       ELSE IF has_list /\ fail = "statement"
       THEN Return("InternalServerError", "upsert_user_group_roles", 2,
                   w_users, w_deleted, FALSE)
       ELSE IF fail = "commit"
       THEN Return("InternalServerError", "commit to database",
                   IF has_list THEN 2 + Len(items) ELSE 1,
                   w_users, IF has_list THEN w_upserted ELSE user_group_roles,
                   FALSE)
       ELSE Return("Ok", "", IF has_list THEN 2 + Len(items) ELSE 1,
                   w_users, IF has_list THEN w_upserted ELSE user_group_roles,
                   TRUE)

\* POST /user/ ; the new row gets a fresh id (Uuid::now_v7)
user_create_api(jwt_token, json, salt, fail) ==
    LET r == [NoResp EXCEPT !.op = "user_create", !.tx = "rolled_back", !.token = jwt_token,
                            !.subject = NewUserId, !.user_name = json.user_name,
                            !.password = json.password,
                            !.ids = json.group_roles]
        has_list == Len(json.group_roles) = 1
        items == IF has_list THEN json.group_roles[1] ELSE <<>>
        v == check_group_roles(items)
        w_users == create_user(users, NewUserId, json.user_name,
                               hash_password(json.password, salt))
        w_upserted == upsert_user_group_roles(user_group_roles, NewUserId, items)
        Return(status, message, writes, view_users, view_ugr, committed) ==
            /\ resp' = [r EXCEPT !.status = status, !.message = message,
                                 !.writes = writes,
                                 !.tx = IF committed THEN "committed"
                                        ELSE "rolled_back"]
            /\ users' = tx_end(users, view_users, committed)
            /\ user_group_roles' = tx_end(user_group_roles, view_ugr, committed)
    IN IF get_user_from_token(store, users, jwt_token) = NoUser
       THEN Return("Unauthorized", "", 0, users, user_group_roles, FALSE)
       ELSE IF v # ""
       THEN Return("BadRequest", v, 1, w_users, user_group_roles, FALSE)
       ELSE IF has_list /\ fail = "statement"
       THEN Return("InternalServerError", "upsert_user_group_roles", 2,
                   w_users,
                   delete_user_group_roles(user_group_roles, NewUserId), FALSE)
       ELSE IF fail = "commit"
       THEN Return("InternalServerError", "commit to database",
                   IF has_list THEN 2 + Len(items) ELSE 1,
                   w_users, IF has_list THEN w_upserted ELSE user_group_roles,
                   FALSE)
       ELSE Return("Created", "", IF has_list THEN 2 + Len(items) ELSE 1,
                   w_users, IF has_list THEN w_upserted ELSE user_group_roles,
                   TRUE)

\* create_permission : INSERT the permission row
create_permission(ps, id, json) ==
    [k \in (DOMAIN ps) \cup {id} |->
        IF k = id THEN [is_user |-> json.is_user, is_role |-> json.is_role,
                        is_group |-> json.is_group]
        ELSE ps[k]]

\* create_permission_attribute_list, once per attribute of the request
create_permission_attribute_lists(rows, permission_id, attribute_ids) ==
    rows (+) [row \in {<<permission_id, attribute_ids[i]>> :
                          i \in 1..Len(attribute_ids)} |->
                Cardinality({i \in 1..Len(attribute_ids) :
                                <<permission_id, attribute_ids[i]>> = row})]

\* POST /permission/ ; the new row gets a fresh id (Uuid::now_v7)
create_permission_api(jwt_token, json, fail) ==
    LET r == [NoResp EXCEPT !.op = "permission_create", !.tx = "rolled_back", !.token = jwt_token,
                            !.permission = NewPermissionId,
                            !.ids = json.permission_attribute_ids]
        ids == json.permission_attribute_ids
        missing == \E i \in 1..Len(ids) :
                      ~get_permission_attribute_by_id(attributes, ids[i])
        w_permissions == create_permission(permissions, NewPermissionId, json)
        w_pal == create_permission_attribute_lists(pal, NewPermissionId, ids)
        Return(status, message, writes, view_permissions, view_pal, committed) ==
            /\ resp' = [r EXCEPT !.status = status, !.message = message,
                                 !.writes = writes,
                                 !.tx = IF committed THEN "committed"
                                        ELSE "rolled_back"]
            /\ permissions' = tx_end(permissions, view_permissions, committed)
            /\ pal' = tx_end(pal, view_pal, committed)
    IN IF get_user_from_token(store, users, jwt_token) = NoUser
       THEN Return("Unauthorized", "", 0, permissions, pal, FALSE)
       ELSE IF missing
       THEN Return("BadRequest", "attribute not found", 0, permissions, pal, FALSE)
       ELSE IF Len(ids) > 0 /\ fail = "statement"
       THEN Return("InternalServerError", "create_permission_attribute_list",
                   1, w_permissions, pal, FALSE)
       ELSE IF fail = "commit"
       THEN Return("InternalServerError", "commit transaction",
                   1 + Len(ids), w_permissions, w_pal, FALSE)
       ELSE Return("Created", "", 1 + Len(ids), w_permissions, w_pal, TRUE)

-----------------------------------------------------------------------------
(* Steps of the user specification: the administrator (u1) creates one     *)
(* user, updates users and creates one permission                          *)

\* the (role, group) items that resolve, and two that do not
GoodItems == {"r1"} \X UserSpecGroupIds
BadItems == {<<GhostId, "g1">>, <<"r1", GhostId>>}

\* how often the stored credential of a user has been hashed again
Rehashed(id) == (Len(users[id].password) - 3) \div 2

UserUpdate ==
    /\ Rehashed("u2") < MaxRehash
    /\ \E group_roles \in {<<>>} \cup {<<l>> : l \in SeqsUpTo(GoodItems, MaxGroupRoles)},
          salt \in Salts, fail \in FailPoints :
            user_update_api(held["u1"].token, "u2",
                [user_name |-> "bob", group_roles |-> group_roles], salt, fail)
    /\ UNCHANGED <<now, leeway, store, held>>
    /\ UNCHANGED <<roles, groups, permissions, attributes, grants, pal, txs>>

\* updates that rename the user, name a missing role or group, or are
\* sent for a missing user or without a session
UserUpdateOther ==
    /\ Rehashed("u2") < MaxRehash
    /\ \E q \in {<<held["u1"].token, "u2">>, <<held["u1"].token, GhostId>>,
                  <<Garbage, "u2">>},
          user_name \in {"bob", "carol"},
          l \in {<<b>> : b \in BadItems} \cup {<<<<"r1", "g1">>, <<"r1", GhostId>>>>,
                                              <<<<"r1", "g2">>>>} :
            user_update_api(q[1], q[2],
                [user_name |-> user_name, group_roles |-> <<l>>], "s1", "none")
    /\ UNCHANGED <<now, leeway, store, held>>
    /\ UNCHANGED <<roles, groups, permissions, attributes, grants, pal, txs>>

UserCreate ==
    /\ NewUserId \notin DOMAIN users
    /\ \E jwt_token \in {held["u1"].token, Garbage},
          l \in {<<>>, << <<"r1", "g1">> >>, << <<"r1", GhostId>> >>},
          fail \in FailPoints :
            user_create_api(jwt_token,
                [user_name |-> "carol", password |-> <<"pw_carol">>,
                 group_roles |-> <<l>>], "s2", fail)
    /\ UNCHANGED <<now, leeway, store, held>>
    /\ UNCHANGED <<roles, groups, permissions, attributes, grants, pal, txs>>

PermissionCreate ==
    /\ NewPermissionId \notin DOMAIN permissions
    /\ \E jwt_token \in {held["u1"].token, Garbage},
          ids \in {<<>>, <<"a1">>, <<"a1", "a2">>, <<GhostId>>},
          fail \in FailPoints :
            create_permission_api(jwt_token,
                [is_user |-> TRUE, is_role |-> FALSE, is_group |-> TRUE,
                 permission_attribute_ids |-> ids], fail)
    /\ UNCHANGED authVars
    /\ UNCHANGED <<roles, groups, attributes, grants, user_group_roles, txs>>

InitUser ==
    /\ InitAdminSession
    /\ roles = [id \in RoleIds |-> [deleted |-> FALSE]]
    /\ groups = [id \in UserSpecGroupIds |-> [deleted |-> FALSE]]
    /\ permissions = [id \in PermIds |->
                        [is_user |-> TRUE, is_role |-> TRUE, is_group |-> TRUE]]
    /\ attributes = AttrIds
    /\ grants = [k \in Kinds |-> EmptyBag]
    /\ pal = EmptyBag
    /\ user_group_roles = EmptyBag
    /\ txs = <<>>

NextUser == UserUpdate \/ UserUpdateOther \/ UserCreate \/ PermissionCreate

SpecUser == InitUser /\ [][NextUser]_vars

-----------------------------------------------------------------------------
(* A replacement in progress next to concurrent readers.  The writer is    *)
(* user_update_api (or update_permission_api) taken statement by           *)
(* statement; a reader is another request with its own transaction.        *)

read_uncommitted(committed, view) == view
\* what a SELECT of another transaction returns (postgres READ COMMITTED,
\* the isolation state.db.begin() gives): committed rows only
read_committed(committed, view) == committed

ReplaceUser == "u2"
ReplacePermission == "p1"

IdleReplace == [pc |-> "idle", items |-> <<>>, i |-> 0,
                old |-> {}, view |-> EmptyBag]

\* user_update_api up to and including update_user and the group_roles loop
UgrBegin ==
    /\ txs.ugr.pc = "idle"
    /\ get_user_from_token(store, users, AdminToken) # NoUser
    /\ get_user_by_id(users, ReplaceUser) # NoUser
    /\ \E items \in SeqsUpTo(GoodItems, MaxGroupRoles) :
          /\ check_group_roles(items) = ""
          /\ txs' = [txs EXCEPT !.ugr =
                  [pc |-> "updated", items |-> items, i |-> 0,
                   old |-> GroupRolesOf(user_group_roles, ReplaceUser),
                   view |-> user_group_roles]]
    /\ UNCHANGED authVars /\ UNCHANGED grantVars /\ UNCHANGED resp

\* upsert_user_group_roles : the DELETE statement
UgrDelete ==
    /\ txs.ugr.pc = "updated"
    /\ txs' = [txs EXCEPT !.ugr.pc = "inserting",
                          !.ugr.view = delete_user_group_roles(@, ReplaceUser)]
    /\ UNCHANGED authVars /\ UNCHANGED grantVars /\ UNCHANGED resp

\* upsert_user_group_roles : one INSERT of the loop
UgrInsert ==
    /\ txs.ugr.pc = "inserting"
    /\ txs.ugr.i < Len(txs.ugr.items)
    /\ LET item == txs.ugr.items[txs.ugr.i + 1]
       IN txs' = [txs EXCEPT !.ugr.i = @ + 1,
                             !.ugr.view = @ (+) SetToBag(
                                 {<<ReplaceUser, item[1], item[2]>>})]
    /\ UNCHANGED authVars /\ UNCHANGED grantVars /\ UNCHANGED resp

\* tx.commit() of user_update_api
UgrCommit ==
    /\ txs.ugr.pc = "inserting"
    /\ txs.ugr.i = Len(txs.ugr.items)
    /\ user_group_roles' = tx_end(user_group_roles, txs.ugr.view, TRUE)
    /\ users' = tx_end(users,
                       update_user(users, ReplaceUser, UserName(ReplaceUser),
                           hash_password(users[ReplaceUser].password, "s2")),
                       TRUE)
    /\ txs' = [txs EXCEPT !.ugr.pc = "done"]
    /\ UNCHANGED <<now, leeway, store, held, resp>>
    /\ UNCHANGED <<roles, groups, permissions, attributes, grants, pal>>

\* update_permission_api up to and including update_permission
PalBegin ==
    /\ txs.pal.pc = "idle"
    /\ get_user_from_token(store, users, AdminToken) # NoUser
    /\ get_permission_by_id(permissions, ReplacePermission)
    /\ \E items \in SeqsUpTo(AttrIds, MaxAttrList) :
          txs' = [txs EXCEPT !.pal =
                  [pc |-> "updated", items |-> items, i |-> 0,
                   old |-> AttrsOf(pal, ReplacePermission),
                   view |-> pal]]
    /\ UNCHANGED authVars /\ UNCHANGED grantVars /\ UNCHANGED resp

\* the call of update_permssion_attribute_list_by_permission(&mut tx, ..)
PalReplace ==
    /\ txs.pal.pc = "updated"
    /\ txs' = [txs EXCEPT !.pal.pc = "inserting",
                          !.pal.i = Len(txs.pal.items),
                          !.pal.view =
                              update_permssion_attribute_list_by_permission(
                                  @, ReplacePermission, txs.pal.items)]
    /\ UNCHANGED authVars /\ UNCHANGED grantVars /\ UNCHANGED resp

\* tx.commit() of update_permission_api
PalCommit ==
    /\ txs.pal.pc = "inserting"
    /\ pal' = tx_end(pal, txs.pal.view, TRUE)
    /\ txs' = [txs EXCEPT !.pal.pc = "done"]
    /\ UNCHANGED authVars /\ UNCHANGED resp
    /\ UNCHANGED <<roles, groups, permissions, attributes, grants,
                   user_group_roles>>

\* another request reads the user's rows: get_user_group_roles_by_user.
\* kind and counts note where the writer stood: its pc and the number of
\* rows of the user in its view
ReadGroupRoles ==
    /\ resp' = [NoResp EXCEPT
                  !.op = "get_user_group_roles", !.subject = ReplaceUser,
                  !.removed = GroupRolesOf(
                      read_committed(user_group_roles, txs.ugr.view),
                      ReplaceUser),
                  !.kind = txs.ugr.pc,
                  !.counts = Cardinality(GroupRolesOf(txs.ugr.view, ReplaceUser))]
    /\ UNCHANGED authVars /\ UNCHANGED grantVars /\ UNCHANGED txs

\* another request reads the permission's list:
\* get_all_permission_attribute_list
ReadAttributeList ==
    /\ resp' = [NoResp EXCEPT
                  !.op = "get_permission_attribute_list",
                  !.permission = ReplacePermission,
                  !.removed = AttrsOf(read_committed(pal, txs.pal.view),
                                      ReplacePermission),
                  !.kind = txs.pal.pc,
                  !.counts = Cardinality(AttrsOf(txs.pal.view, ReplacePermission))]
    /\ UNCHANGED authVars /\ UNCHANGED grantVars /\ UNCHANGED txs

\* the tables hold some complete earlier set for the user and the permission
InitReplace ==
    /\ InitAdminSession
    /\ roles = [id \in RoleIds |-> [deleted |-> FALSE]]
    /\ groups = [id \in UserSpecGroupIds |-> [deleted |-> FALSE]]
    /\ permissions = [id \in PermIds |->
                        [is_user |-> TRUE, is_role |-> TRUE, is_group |-> TRUE]]
    /\ attributes = AttrIds
    /\ grants = [k \in Kinds |-> EmptyBag]
    /\ \E olds \in SUBSET AttrIds :
          pal = SetToBag({<<ReplacePermission, a>> : a \in olds})
    /\ \E olds \in SUBSET GoodItems :
          user_group_roles =
              SetToBag({<<ReplaceUser, it[1], it[2]>> : it \in olds})
    /\ txs = [ugr |-> [IdleReplace EXCEPT
                          !.old = GroupRolesOf(user_group_roles, ReplaceUser),
                          !.view = user_group_roles],
              pal |-> [IdleReplace EXCEPT
                          !.old = AttrsOf(pal, ReplacePermission),
                          !.view = pal]]

NextReplace ==
    \/ UgrBegin \/ UgrDelete \/ UgrInsert \/ UgrCommit
    \/ PalBegin \/ PalReplace \/ PalCommit
    \/ ReadGroupRoles \/ ReadAttributeList

SpecReplace == InitReplace /\ [][NextReplace]_vars

-----------------------------------------------------------------------------
(* core/security.rs : hash_password and verify_hash_password on their own  *)

\* longest password tried
MaxPwLen == 2
PwSymbols == {"a", "b", "$argon2id"}

\* hash_password(password) with the salt the generator drew
HashPassword ==
    /\ \E password \in SeqsUpTo(PwSymbols, MaxPwLen), salt \in Salts :
          resp' = [NoResp EXCEPT !.op = "hash_password",
                                 !.password = password,
                                 !.ids = hash_password(password, salt)]
    /\ UNCHANGED authVars /\ UNCHANGED grantVars /\ UNCHANGED txs

\* verify_hash_password(candidate, hash) on the hash last produced
VerifyHashPassword ==
    /\ resp.op \in {"hash_password", "verify_hash_password"}
    /\ \E candidate \in SeqsUpTo(PwSymbols, MaxPwLen) :
          resp' = [resp EXCEPT !.op = "verify_hash_password",
                               !.candidate = candidate,
                               !.verified =
                                   verify_hash_password(candidate, resp.ids)]
    /\ UNCHANGED authVars /\ UNCHANGED grantVars /\ UNCHANGED txs

InitHash == InitAdminSession /\ InitGrantData

NextHash == HashPassword \/ VerifyHashPassword

SpecHash == InitHash /\ [][NextHash]_vars

-----------------------------------------------------------------------------
(* core/security.rs : the token codec on its own.  Claims are encoded      *)
(* under a secret, the clock may advance, and the token is decoded by      *)
(* either decoder under any secret.                                        *)

\* values Config.jwt_secret can hold: any String, the empty one included
Secrets == {"", JwtSecret, OtherSecret}

\* exp claims tried: past the leeway, within it, and in the future
ClaimExps == {StartTime - SecondsPerMinute - 1, StartTime - 1, StartTime + 1,
              StartTime + JwtExp * SecondsPerMinute}

\* encode_token / encode_refresh_token return Ok: Keys::new is infallible
\* (it returns Self for every byte string) and HS256 signs under a key of
\* any length, so no secret makes the `?` after encode take its Err arm
encode_token_ok(claims, jwt_secret) == TRUE

EncodeResp(claims, jwt_secret) ==
    [NoResp EXCEPT !.op = "encode", !.claims = claims, !.secret = jwt_secret,
                   !.status = IF encode_token_ok(claims, jwt_secret)
                              THEN "Ok" ELSE "Err",
                   !.out_token = IF encode_token_ok(claims, jwt_secret)
                                 THEN encode_token(claims, jwt_secret)
                                 ELSE NoToken]

EncodeToken ==
    /\ \E u \in UserIds, e \in ClaimExps, s \in Secrets :
          resp' = EncodeResp([Claims_new(u, UserName(u), now) EXCEPT !.exp = e], s)
    /\ UNCHANGED authVars /\ UNCHANGED grantVars /\ UNCHANGED txs

EncodeRefreshToken ==
    /\ \E u \in UserIds, e \in ClaimExps, s \in Secrets :
          resp' = EncodeResp(
                      [ClaimsRefresh_new(u, UserName(u), now) EXCEPT !.exp = e], s)
    /\ UNCHANGED authVars /\ UNCHANGED grantVars /\ UNCHANGED txs

DecodeResp(decoder, jwt_secret, ok, claims) ==
    [resp EXCEPT !.op = "decode", !.decoder = decoder, !.secret2 = jwt_secret,
                 !.at = now, !.status = IF ok THEN "Ok" ELSE "Err",
                 !.decoded = IF ok THEN claims ELSE NoClaims]

\* decode_token(token, secret) on the token last encoded
DecodeToken ==
    /\ resp.op \in {"encode", "decode"} /\ resp.out_token # NoToken
    /\ \E s \in Secrets :
          resp' = DecodeResp("decode_token", s,
                      decode_token_ok(resp.out_token, s, now, leeway),
                      decode_token_claims(resp.out_token))
    /\ UNCHANGED authVars /\ UNCHANGED grantVars /\ UNCHANGED txs

\* decode_refresh_token(token, secret) on the token last encoded
DecodeRefreshToken ==
    /\ resp.op \in {"encode", "decode"} /\ resp.out_token # NoToken
    /\ \E s \in Secrets :
          resp' = DecodeResp("decode_refresh_token", s,
                      decode_refresh_token_ok(resp.out_token, s, now, leeway),
                      decode_refresh_token_claims(resp.out_token))
    /\ UNCHANGED authVars /\ UNCHANGED grantVars /\ UNCHANGED txs

\* the clock advances one second between encoding and decoding
JwtTick ==
    /\ now < StartTime + MaxTicks
    /\ now' = now + 1
    /\ UNCHANGED <<leeway, users, store, held, resp>>
    /\ UNCHANGED grantVars /\ UNCHANGED txs

InitJwt == Init

NextJwt ==
    EncodeToken \/ EncodeRefreshToken \/ DecodeToken \/ DecodeRefreshToken
        \/ JwtTick

SpecJwt == InitJwt /\ [][NextJwt]_vars

-----------------------------------------------------------------------------
(* repository/role.rs and route/role.rs : detail, update and soft delete   *)
(* of a role                                                               *)

RoleSpecIds == {"r1", "r2"}
RoleNames == {"n1", "n2"}

\* update_role : UPDATE ... SET role_name, ... WHERE id
update_role(rs, id, role_name) == [rs EXCEPT ![id].role_name = role_name]

\* soft_delete_role : UPDATE ... SET deleted_date WHERE id
soft_delete_role(rs, id) == [rs EXCEPT ![id].deleted = TRUE]

RoleResp(op, jwt_token, id) ==
    [NoResp EXCEPT !.op = op, !.tx = "rolled_back", !.token = jwt_token,
                   !.subject = id]

\* GET /role/detail/
get_detail_role_api(jwt_token, id) ==
    LET r == RoleResp("role_detail", jwt_token, id)
    IN IF get_user_from_token(store, users, jwt_token) = NoUser
       THEN resp' = [r EXCEPT !.status = "Unauthorized"]
       ELSE IF ~get_role_by_id(roles, id)
       THEN resp' = [r EXCEPT !.status = "NotFound", !.message = "role not found"]
       ELSE resp' = [r EXCEPT !.status = "Ok", !.user_name = roles[id].role_name]

\* PUT /role/
update_role_api(jwt_token, id, role_name) ==
    LET r == RoleResp("role_update", jwt_token, id)
    IN IF get_user_from_token(store, users, jwt_token) = NoUser
       THEN resp' = [r EXCEPT !.status = "Unauthorized"] /\ UNCHANGED roles
       ELSE IF ~get_role_by_id(roles, id)
       THEN /\ resp' = [r EXCEPT !.status = "NotFound",
                                 !.message = "role not found"]
            /\ UNCHANGED roles
       ELSE /\ roles' = update_role(roles, id, role_name)
            /\ resp' = [r EXCEPT !.status = "Ok", !.tx = "committed",
                                 !.user_name = role_name]

\* DELETE /role/
delete_role_api(jwt_token, id) ==
    LET r == RoleResp("role_delete", jwt_token, id)
    IN IF get_user_from_token(store, users, jwt_token) = NoUser
       THEN resp' = [r EXCEPT !.status = "Unauthorized"] /\ UNCHANGED roles
       ELSE IF ~get_role_by_id(roles, id)
       THEN /\ resp' = [r EXCEPT !.status = "NotFound",
                                 !.message = "role not found"]
            /\ UNCHANGED roles
       ELSE /\ roles' = soft_delete_role(roles, id)
            /\ resp' = [r EXCEPT !.status = "NoContent", !.tx = "committed"]

RoleDetail ==
    /\ \E jwt_token \in GrantBearerInputs, id \in RoleSpecIds \cup {GhostId} :
          get_detail_role_api(jwt_token, id)
    /\ UNCHANGED authVars /\ UNCHANGED grantVars /\ UNCHANGED txs

RoleUpdate ==
    /\ \E jwt_token \in GrantBearerInputs, id \in RoleSpecIds \cup {GhostId},
          role_name \in RoleNames :
          update_role_api(jwt_token, id, role_name)
    /\ UNCHANGED authVars
    /\ UNCHANGED <<groups, permissions, attributes, grants, pal,
                   user_group_roles, txs>>

RoleDelete ==
    /\ \E jwt_token \in GrantBearerInputs, id \in RoleSpecIds \cup {GhostId} :
          delete_role_api(jwt_token, id)
    /\ UNCHANGED authVars
    /\ UNCHANGED <<groups, permissions, attributes, grants, pal,
                   user_group_roles, txs>>

InitRole ==
    /\ InitAdminSession
    /\ roles = [id \in RoleSpecIds |-> [role_name |-> "n1", deleted |-> FALSE]]
    /\ groups = [id \in GroupIds |-> [deleted |-> FALSE]]
    /\ permissions = [id \in PermIds |->
                        [is_user |-> TRUE, is_role |-> TRUE, is_group |-> TRUE]]
    /\ attributes = AttrIds
    /\ grants = [k \in Kinds |-> EmptyBag]
    /\ pal = EmptyBag
    /\ user_group_roles = EmptyBag
    /\ txs = <<>>

NextRole == RoleDetail \/ RoleUpdate \/ RoleDelete

SpecRole == InitRole /\ [][NextRole]_vars

-----------------------------------------------------------------------------
(* Properties of the authentication flow (specification Spec)              *)

\* a refresh token the claims call valid: well formed, of the refresh
\* shape, signed with the configured secret, exp not yet passed
ValidRefreshToken(token) ==
    /\ token.typ = "refresh"
    /\ token.sig = JwtSecret
    /\ token.exp >= now

\* C1: after any successful login the session store holds an entry under the
\* returned access token, and resolving that token yields the user whose id
\* is stored for the username that logged in.
C1_LoginThenResolve ==
    (resp.op = "login" /\ resp.status = "Ok") =>
        /\ resp.out_token \in DOMAIN store
        /\ get_user_from_token(store, users, resp.out_token)
              = get_user_by_username(users, resp.user_name)

\* C2: the logout that follows a successful login succeeds and removes the
\* entry stored under the token; a logout with a token that has no entry
\* (none was re-created under it) fails with Unauthorized and changes nothing.
C2_LogoutOnce ==
    [][ /\ (resp.op = "login" /\ resp.status = "Ok"
             /\ resp'.op = "logout" /\ resp'.token = resp.out_token)
            => (resp'.status = "NoContent"
                /\ resp.out_token \notin DOMAIN store')
        /\ (resp'.op = "logout" /\ resp'.token \notin DOMAIN store)
            => (IsUnauthorized(resp') /\ store' = store) ]_vars

\* C3: a refresh with a valid, unexpired refresh token whose subject exists
\* and is not soft-deleted returns an access token that has a session entry
\* and resolves to the subject of the refresh token.
C3_RefreshIssuesAccess ==
    (resp.op = "refresh" /\ ValidRefreshToken(resp.token)
        /\ get_user_by_id(users, resp.token.id) # NoUser) =>
        /\ resp.status = "Ok"
        /\ resp.out_token \in DOMAIN store
        /\ get_user_from_token(store, users, resp.out_token) = resp.token.id

\* C3 witness: a refresh with a token issued before the run succeeded and the
\* new access token resolves to the token's subject
C3_Witness ==
    /\ resp.op = "refresh" /\ resp.status = "Ok"
    /\ resp.token \in PreIssued
    /\ ValidRefreshToken(resp.token)
    /\ get_user_from_token(store, users, resp.out_token) = resp.token.id

\* C4: a refresh with an expired, malformed or wrongly signed refresh token
\* fails with Unauthorized, not with an internal error.
C4_BadRefreshUnauthorized ==
    (resp.op = "refresh" /\ ~ValidRefreshToken(resp.token)) =>
        IsUnauthorized(resp)

\* C9: a session entry lives exactly as long as its access token: the TTL of
\* the entry ends at the instant of the token's exp claim.
C9_SessionTtlIsTokenLifetime ==
    \A k \in DOMAIN store :
        k.typ = "access" => store[k].expire_at = k.exp

\* C10: a login with the username of a soft-deleted user fails with
\* InvalidCredentials, also with the right password.
C10_DeletedUserCannotLogin ==
    (resp.op = "login"
        /\ \E id \in DOMAIN users :
              users[id].user_name = resp.user_name /\ users[id].deleted) =>
        IsInvalidCredentials(resp)

-----------------------------------------------------------------------------
(* Properties of the grant relations (specifications SpecGrant, SpecConc)  *)

RespRow(r) == <<r.subject, r.permission, r.attribute>>

\* C5: for each grant relation and existing subject, permission and
\* attribute: a create succeeds when the triple is absent; an identical
\* create while the triple exists is rejected with Conflict and leaves the
\* relation unchanged; a delete removes the triple, so that a create
\* succeeds again after it.
C5_CreateConflictRecreate ==
    [][ /\ (/\ resp'.op = "create_grant"
             /\ get_user_from_token(store, users, resp'.token) # NoUser
             /\ validate_grant_request(resp'.kind, resp'.subject,
                                       resp'.permission, resp'.attribute) = "")
            => IF BagIn(RespRow(resp'), grants[resp'.kind])
               THEN IsConflict(resp') /\ grants' = grants
               ELSE /\ resp'.status = "Ok"
                    /\ CopiesIn(RespRow(resp'), grants'[resp'.kind]) = 1
        /\ (resp'.op = "delete_grant" /\ resp'.status = "NoContent")
            => ~BagIn(RespRow(resp'), grants'[resp'.kind]) ]_vars

\* C5 witness: an identical create was rejected while the triple is stored
C5_Witness ==
    /\ resp.op = "create_grant" /\ IsConflict(resp)
    /\ CopiesIn(RespRow(resp), grants[resp.kind]) = 1

\* C6: once concurrent create transactions for one triple have all finished,
\* at most one row with that triple is in the relation.
C6_TripleStaysUnique ==
    (\A t \in TxIds : txs[t].pc = "done") =>
        \A k \in Kinds : \A row \in DOMAIN grants[k] :
            CopiesIn(row, grants[k]) <= 1

\* C6 witness: two transactions raced for one triple; both passed the
\* existence check, one committed its row and the other one failed
C6_Witness ==
    \E t1 \in TxIds, t2 \in TxIds :
        /\ txs[t1].pc = "done" /\ txs[t2].pc = "done"
        /\ txs[t1].kind = txs[t2].kind /\ txs[t1].row = txs[t2].row
        /\ txs[t1].status = "Ok" /\ txs[t2].status = "InternalServerError"
        /\ CopiesIn(txs[t1].row, grants[txs[t1].kind]) = 1

-----------------------------------------------------------------------------
(* Properties of the permission attribute list (specification SpecPerm)    *)

\* C7: after a successful permission update carrying the attribute list L,
\* the permission_attribute_list rows of that permission are exactly the
\* attributes of L, whatever was associated before.
C7_ReplaceIsTotal ==
    (resp.op = "update_permission" /\ resp.status = "Ok") =>
        AttrsOf(pal, resp.permission) = Range(resp.ids)

\* C7 witness: a permission associated with two attributes was updated with
\* a list that names a third one only
C7_Witness ==
    /\ resp.op = "update_permission" /\ resp.status = "Ok"
    /\ Cardinality(resp.removed) = 2
    /\ Len(resp.ids) = 1
    /\ resp.ids[1] \notin resp.removed
    /\ AttrsOf(pal, resp.permission) = {resp.ids[1]}

-----------------------------------------------------------------------------
(* Properties of the paginated listing (specification SpecPage)            *)

\* the least k with k * page_size >= total
Ceil(total, page_size) ==
    CHOOSE k \in 0..total :
        /\ k * page_size >= total
        /\ \A j \in 0..(k - 1) : j * page_size < total

\* C8: a listing returns total_count = the number of grant rows of the
\* subject; with all = false and page_size >= 1 it returns page_count =
\* ceil(total_count / page_size), with all = true page_count = 0.
C8_PageCount ==
    (resp.op = "list_grants" /\ resp.status = "Ok") =>
        /\ resp.counts = Cardinality({row \in DOMAIN grants[resp.kind] :
                                        row[1] = resp.subject})
        /\ (~resp.all /\ resp.page_size >= 1) =>
               resp.page_count = Ceil(resp.counts, resp.page_size)
        /\ resp.all => resp.page_count = 0

\* C8 witness: 23 rows listed with page_size 10 give 3 pages
C8_Witness ==
    /\ resp.op = "list_grants" /\ resp.status = "Ok"
    /\ ~resp.all /\ resp.counts = 23 /\ resp.page_size = 10
    /\ resp.page_count = 3

-----------------------------------------------------------------------------
(* Further properties of the authentication flow (specification Spec)      *)

\* the request named a username no user row carries
UnknownUsername(user_name) ==
    \A id \in DOMAIN users : users[id].user_name # user_name

\* the request named an existing user but not that user's password
WrongPassword(user_name, password) ==
    \E id \in DOMAIN users :
        users[id].user_name = user_name /\ password # PasswordOf(id)

\* C11: a login with an unknown username and a login with a known username
\* and a wrong password are answered alike, with the status and message of
\* InvalidCredentials, and neither adds nor changes a session store entry.
C11_SameInvalidCredentials ==
    [][ (resp'.op = "login"
          /\ (UnknownUsername(resp'.user_name)
               \/ WrongPassword(resp'.user_name, resp'.password)))
        => /\ resp'.status = "BadRequest"
           /\ resp'.message = "Invalid credentials"
           /\ resp'.out_token = NoToken
           /\ store' = store ]_vars

\* C11 witness: with a live session in the store, a login with a wrong
\* password for "alice" was refused
C11_Witness ==
    /\ resp.op = "login" /\ resp.user_name = "alice"
    /\ resp.password = <<"pw_bob">> /\ IsInvalidCredentials(resp)
    /\ store # EmptyStore

\* the session stored under the token belongs to a soft-deleted user
SessionOfDeletedUser(token) ==
    /\ token \in DOMAIN store
    /\ store[token].user_id \in DOMAIN users
    /\ users[store[token].user_id].deleted

\* C12: once a user is soft-deleted the user stays soft-deleted, and every
\* authenticated request that carries an access token whose live session
\* belongs to that user is answered Unauthorized.
C12_DeletedUserSessionDead ==
    [][ /\ \A id \in DOMAIN users : users[id].deleted => users'[id].deleted
        /\ (resp'.op \in {"logout", "user_delete"}
              /\ SessionOfDeletedUser(resp'.token))
            => (IsUnauthorized(resp') /\ users' = users /\ store' = store) ]_vars

\* C12 witness: a logout with a token whose session is still in the store
\* was refused because the session's user had been soft-deleted
C12_Witness ==
    /\ resp.op = "logout" /\ IsUnauthorized(resp)
    /\ SessionOfDeletedUser(resp.token)

\* C13: a refresh leaves every session entry that existed before it in the
\* store with its value and TTL, so an access token that resolved to a user
\* before the refresh resolves to the same user after it.
C13_RefreshKeepsSessions ==
    [][ resp'.op = "refresh" =>
          \A k \in DOMAIN store :
              /\ k \in DOMAIN store'
              /\ store'[k] = store[k]
              /\ get_user_from_token(store', users', k)
                    = get_user_from_token(store, users, k) ]_vars

\* C13 witness: after a successful refresh an older session of the same
\* user is live next to the new one
C13_Witness ==
    /\ resp.op = "refresh" /\ resp.status = "Ok"
    /\ \E k \in DOMAIN store :
          /\ k # resp.out_token
          /\ get_user_from_token(store, users, k) = resp.token.id
          /\ get_user_from_token(store, users, resp.out_token) = resp.token.id

\* C14: refresh does not consult the session store: after a logout with an
\* access token succeeded, the refresh token issued together with it is
\* accepted by refresh as long as its exp has not passed (the user not
\* having been soft-deleted meanwhile) and gives a live session for the
\* same user.
C14_RefreshAfterLogout ==
    [][ \A u \in UserIds :
          (resp'.op = "refresh"
            /\ held[u].logged_out_refresh # NoToken
            /\ resp'.token = held[u].logged_out_refresh
            /\ resp'.token.exp >= now
            /\ get_user_by_id(users, u) # NoUser)
          => /\ resp'.status = "Ok"
             /\ resp'.out_token \in DOMAIN store'
             /\ get_user_from_token(store', users', resp'.out_token) = u ]_vars

\* C14 witness: the refresh token of a logged-out pair was accepted while
\* the logged-out access token has no session
C14_Witness ==
    /\ resp.op = "refresh" /\ resp.status = "Ok"
    /\ \E u \in UserIds :
          /\ resp.token = held[u].logged_out_refresh
          /\ get_user_from_token(store, users, resp.out_token) = u
          /\ \A a \in DOMAIN store :
                a.exp # resp.token.exp - (JwtRefreshExp - JwtExp) * SecondsPerMinute

-----------------------------------------------------------------------------
(* Further properties of the grant relations (specification SpecGrant)     *)

\* the relation of one kind without the rows equal to row
WithoutRow(rows, row) == [t \in (DOMAIN rows) \ {row} |-> rows[t]]

\* C15: an authenticated delete_grant fails with NotFound and changes
\* nothing when the triple is not in the relation; when the triple is in the
\* relation it succeeds and removes that row and no other.
C15_DeleteGrant ==
    [][ (resp'.op = "delete_grant"
          /\ get_user_from_token(store, users, resp'.token) # NoUser)
        => IF ~BagIn(RespRow(resp'), grants[resp'.kind])
           THEN IsNotFound(resp') /\ grants' = grants
           ELSE /\ resp'.status = "NoContent"
                /\ grants' = [grants EXCEPT ![resp'.kind] =
                                 WithoutRow(@, RespRow(resp'))] ]_vars

\* the same for requests whose subject, permission and attribute resolve
C15_DeleteGrantOfLiveSubject ==
    [][ (resp'.op = "delete_grant"
          /\ get_user_from_token(store, users, resp'.token) # NoUser
          /\ validate_grant_request(resp'.kind, resp'.subject,
                                    resp'.permission, resp'.attribute) = "")
        => IF ~BagIn(RespRow(resp'), grants[resp'.kind])
           THEN resp'.status = "NotFound" /\ grants' = grants
           ELSE /\ resp'.status = "NoContent"
                /\ grants' = [grants EXCEPT ![resp'.kind] =
                                 WithoutRow(@, RespRow(resp'))] ]_vars

\* the rows the request refers to, read from the tables themselves
SubjectMissing(kind, id) ==
    CASE kind = "user"  -> id \notin DOMAIN users \/ users[id].deleted
      [] kind = "role"  -> id \notin DOMAIN roles \/ roles[id].deleted
      [] kind = "group" -> id \notin DOMAIN groups \/ groups[id].deleted
PermissionMissing(id) == id \notin DOMAIN permissions
AttributeMissing(id) == id \notin attributes

\* the missing entities a refusal may name
MissingNames(r) ==
    (IF SubjectMissing(r.kind, r.subject) THEN {"subject not found"} ELSE {})
    \cup (IF PermissionMissing(r.permission) THEN {"permission not found"} ELSE {})
    \cup (IF AttributeMissing(r.attribute) THEN {"attribute not found"} ELSE {})

\* C16: an authenticated create_grant whose subject is missing or
\* soft-deleted, or whose permission or attribute does not exist, is refused
\* with the not-found error that names a missing entity, and no grant
\* relation gains a row.
C16_CreateGrantNotFound ==
    [][ (resp'.op = "create_grant"
          /\ get_user_from_token(store, users, resp'.token) # NoUser
          /\ MissingNames(resp') # {})
        => /\ IsNotFound(resp')
           /\ resp'.message \in MissingNames(resp')
           /\ grants' = grants ]_vars

\* C16 witness: a grant for the soft-deleted user u2 was refused and no row
\* for it was stored
C16_Witness ==
    /\ resp.op = "create_grant" /\ resp.kind = "user" /\ resp.subject = "u2"
    /\ users["u2"].deleted
    /\ IsNotFound(resp) /\ resp.message = "subject not found"
    /\ ~BagIn(RespRow(resp), grants["user"])

-----------------------------------------------------------------------------
(* Properties of the multi-write requests (specification SpecUser)         *)

C19_GroupRolesReplaced ==
    (resp.op = "user_update" /\ resp.status = "Ok" /\ Len(resp.ids) = 1) =>
        /\ GroupRolesOf(user_group_roles, resp.subject) = Range(resp.ids[1])
        /\ \A pair \in resp.removed \ Range(resp.ids[1]) :
              <<resp.subject, pair[1], pair[2]>> \notin DOMAIN user_group_roles

\* C19 witness: the update replaced a pair the user held by another one
C19_Witness ==
    /\ resp.op = "user_update" /\ resp.status = "Ok" /\ Len(resp.ids) = 1
    /\ resp.removed \ Range(resp.ids[1]) # {}
    /\ Range(resp.ids[1]) \ resp.removed # {}
    /\ GroupRolesOf(user_group_roles, resp.subject) = Range(resp.ids[1])

-----------------------------------------------------------------------------
(* Properties of a replacement in progress (specification SpecReplace)     *)

\* C18: while a delete-all-then-reinsert replacement of a user's group-role
\* set or of a permission's attribute list is in progress, a concurrent
\* reader never observes the empty or a partly re-inserted set: it reads the
\* complete old set or the complete new set.
C18_ReaderSeesOldOrNew ==
    /\ resp.op = "get_user_group_roles" =>
          \/ resp.removed = txs.ugr.old
          \/ txs.ugr.pc = "done" /\ resp.removed = Range(txs.ugr.items)
    /\ resp.op = "get_permission_attribute_list" =>
          \/ resp.removed = txs.pal.old
          \/ txs.pal.pc = "done" /\ resp.removed = Range(txs.pal.items)

\* C18 witness: a reader ran after the writer's DELETE and before its first
\* INSERT (no row of the user in the writer's view) and read the old pairs
C18_Witness ==
    /\ resp.op = "get_user_group_roles"
    /\ resp.kind = "inserting" /\ resp.counts = 0
    /\ resp.removed = txs.ugr.old /\ txs.ugr.old # {}
    /\ Range(txs.ugr.items) # txs.ugr.old /\ Range(txs.ugr.items) # {}

-----------------------------------------------------------------------------
(* Properties of password hashing (specification SpecHash)                 *)

-----------------------------------------------------------------------------
(* Properties of the token codec (specification SpecJwt)                   *)

\* the decoder is the one written for the shape of the encoded claims
DecoderOfShape ==
    \/ resp.decoder = "decode_token" /\ resp.claims.typ = "access"
    \/ resp.decoder = "decode_refresh_token" /\ resp.claims.typ = "refresh"

C22_ExpiredTokenFails ==
    (resp.op = "decode" /\ resp.claims.exp < resp.at) => resp.status = "Err"

-----------------------------------------------------------------------------
(* Further properties of the authentication flow (specification Spec)      *)

\* C23: the exp_in returned by a successful login or refresh equals the exp
\* claim (unix seconds) of the returned access token.
C23_ExpInIsTokenExp ==
    (resp.op \in {"login", "refresh"} /\ resp.status = "Ok")
        => resp.exp_in = resp.out_token.exp

\* C24: remove_session on a token that has no entry returns false and leaves
\* the store as it was; logout with a missing bearer token or with a token
\* that has no session entry answers Unauthorized and leaves the store as it
\* was.
C24_LogoutWithoutSession ==
    [][/\ (resp'.op = "logout" /\ resp'.token \notin DOMAIN store)
            => (IsUnauthorized(resp') /\ store' = store)
       /\ \A token \in BearerInputs :
            token \notin DOMAIN store
                => /\ ~remove_session_found(store, token)
                   /\ remove_session(store, token) = store]_vars

\* C24 witness: a logout with an access token that was issued earlier and
\* has no entry any more, while another session is live, was refused
C24_Witness ==
    /\ resp.op = "logout" /\ IsUnauthorized(resp)
    /\ resp.token.typ = "access"
    /\ resp.token \notin DOMAIN store
    /\ DOMAIN store # {}

\* the success variants of the response enums
IsSuccess(r) == r.status \in {"Ok", "Created", "NoContent"}

\* C25: every request that begins a relational transaction and returns a
\* success response (login, refresh and logout included) has committed that
\* transaction before responding.
C25_SuccessHasCommitted ==
    (IsSuccess(resp) /\ resp.tx # "none") => resp.tx = "committed"

-----------------------------------------------------------------------------
(* Further properties of permissions and grants (specification SpecPerm)   *)

\* the applicability flag of a permission for a subject kind
Applicable(permission, kind) ==
    CASE kind = "user"  -> permission.is_user
      [] kind = "role"  -> permission.is_role
      [] kind = "group" -> permission.is_group

\* C26: a grant row of the user (role, group) relation exists only for a
\* permission whose is_user (is_role, is_group) flag is true.
C26_GrantOnlyIfApplicable ==
    \A kind \in Kinds : \A row \in DOMAIN grants[kind] :
        row[2] \in DOMAIN permissions
            => Applicable(permissions[row[2]], kind)

-----------------------------------------------------------------------------
(* Properties of roles (specification SpecRole)                            *)

\* C27: once a role is soft-deleted its row stays, with deleted_date set, and
\* every later detail, update or delete request of a logged-in caller for
\* that id is answered NotFound.
C27_DeletedRoleNotFound ==
    [][\A id \in RoleSpecIds :
          /\ (resp'.op = "role_delete" /\ resp'.subject = id
                /\ resp'.status = "NoContent")
                => (id \in DOMAIN roles' /\ roles'[id].deleted)
          /\ roles[id].deleted
                => /\ id \in DOMAIN roles' /\ roles'[id] = roles[id]
                   /\ (/\ resp'.op \in {"role_detail", "role_update",
                                        "role_delete"}
                       /\ resp'.subject = id
                       /\ ~IsUnauthorized(resp'))
                        => resp'.status = "NotFound"]_vars

\* C27 witness: a role that had been renamed and then soft-deleted was asked
\* to be deleted again, and the request was answered NotFound
C27_Witness ==
    /\ resp.op = "role_delete" /\ resp.status = "NotFound"
    /\ resp.subject \in RoleSpecIds
    /\ roles[resp.subject].deleted
    /\ roles[resp.subject].role_name = "n2"

-----------------------------------------------------------------------------
(* Further properties of the token codec (specification SpecJwt)           *)

\* C28: encoding access or refresh claims under an empty secret fails with a
\* signing error, so no token is issued under an empty secret.
C28_EmptySecretRefused ==
    (resp.op = "encode" /\ resp.secret = "")
        => (resp.status = "Err" /\ resp.out_token = NoToken)

-----------------------------------------------------------------------------
(* Properties of sessions against tokens (specification Spec)              *)

\* C29: at every moment at which an access token resolves to a user through
\* the session store, the exp claim of that token has not yet passed.
C29_SessionWithinTokenLife ==
    \A token \in DOMAIN store :
        get_user_from_token(store, users, token) # NoUser => token.exp >= now

\* C29 witness: a token still resolves after the clock advanced past the
\* second in which its session was written
C29_Witness ==
    \E token \in DOMAIN store :
        /\ get_user_from_token(store, users, token) # NoUser
        /\ store[token].expire_at - JwtExp < now

\* C30: a successful login or refresh never obtains an access-token string
\* that an earlier login or refresh obtained and whose session is still in
\* the store (also for the same user in the same clock second).
C30_FreshAccessToken ==
    [][(resp'.op \in {"login", "refresh"} /\ resp'.status = "Ok")
          => resp'.out_token \notin DOMAIN store]_vars

\* C31: remove_session(token), and so a successful logout, deletes only the
\* entry stored under that access token: the delete of the key equal to the
\* stored refresh_token removes no session entry, and every other entry, of
\* the same or of another user, is unchanged.
C31_LogoutRemovesOneEntry ==
    [][/\ \A token \in DOMAIN store :
            /\ DOMAIN remove_session(store, token) = (DOMAIN store) \ {token}
            /\ store[token].refresh_token \notin DOMAIN store
       /\ (resp'.op = "logout" /\ resp'.status = "NoContent")
            => /\ DOMAIN store' = (DOMAIN store) \ {resp'.token}
               /\ \A k \in DOMAIN store' : store'[k] = store[k]]_vars

\* C31 witness: a logout succeeded while an earlier session of the same user
\* was live, and that session is still in the store
C31_Witness ==
    /\ resp.op = "logout" /\ resp.status = "NoContent"
    /\ \E k \in DOMAIN store : store[k].user_id = resp.token.id

-----------------------------------------------------------------------------
(* Further properties of user maintenance (specification SpecUser)         *)

\* C32: a successful user update leaves the credential of the user as it
\* was: every password that verified against the stored hash before the
\* update verifies against it after the update, so a login with it succeeds.
C32_UpdateKeepsCredential ==
    [][(resp'.op = "user_update" /\ resp'.status = "Ok")
          => \A password \in Passwords :
                verify_hash_password(password, users[resp'.subject].password)
                    => verify_hash_password(password,
                                            users'[resp'.subject].password)]_vars

-----------------------------------------------------------------------------
(* user_group_roles rows per (user, role, group)                           *)

\* C34: no user ever holds two user_group_roles rows with the same
\* (role_id, group_id) pair, whichever operation produced the rows and
\* whatever list the caller supplied: every row of the table occurs once.
C34_NoDuplicateGroupRole ==
    \A row \in DOMAIN user_group_roles : user_group_roles[row] <= 1

-----------------------------------------------------------------------------
(* arithmetic of the paginated listings                                    *)

\* C35: the paginated list operations never hit an arithmetic fault: for
\* every page >= 0 and page_size >= 0 the offset (page - 1) * page_size and
\* the page count div_ceil(count, page_size) are computed without underflow
\* or division by zero, so a listing whose rows all resolve never panics.
C35_NoArithmeticFault ==
    (resp.op = "list_grants"
        /\ DanglingRows(grants[resp.kind], resp.subject) = {})
        => resp.status # "Panic"

====
